---- MODULE Spec2Model ----
(***************************************************************************)
(* Recursive ray tracer of raytracing.c: rayTrace, shade, getNearestObject *)
(* and isInShadow, run as an explicit call stack.                          *)
(*                                                                         *)
(* Numbers.  Distances are integers counting 0.00001 (so 0.00001 is 1 and  *)
(* 0.1 is 10000).  A scalar the code compares (opacity, reflection factor, *)
(* accumulated shadow opacity) is an exact dyadic rational                 *)
(* <<m, e>> = m / 2^e, kept normalised (e = 0 or m odd).  A colour         *)
(* component is the residue of its exact value modulo the prime Prime:     *)
(* the code only adds, multiplies and scales colours and never compares    *)
(* them or branches on them, and these operations are exact on residues.   *)
(*                                                                         *)
(* Colours.  The same ray is traced in two scenes, "A" and "B", that       *)
(* differ only in the colours of their lights.  A colour-valued variable   *)
(* holds one component per scene; the colour operations act component by   *)
(* component.                                                              *)
(***************************************************************************)
EXTENDS Integers, Sequences, FiniteSets, TLC

MAX_DEPTH == 6
SelfEpsilon == 1
ShadowEpsilon == 10000
DBL_MAX == 1000000000

\* 1.0 in distance units
Unit == 10 * ShadowEpsilon

(* ---- bounds of the model ---- *)
MaxObjects == 7
MaxLights == 2
MaxTopCalls == 2
MaxFnLen == 3

(***************************************************************************)
(* Dyadic rationals                                                        *)
(***************************************************************************)
RECURSIVE Pow2(_)
Pow2(k) == IF k = 0 THEN 1 ELSE 2 * Pow2(k - 1)

RECURSIVE Norm(_, _)
Norm(m, e) == IF e > 0 /\ m % 2 = 0 THEN Norm(m \div 2, e - 1) ELSE <<m, e>>

D(n) == <<n, 0>>
Half == <<1, 1>>
MaxE(a, b) == IF a[2] > b[2] THEN a[2] ELSE b[2]
Num(a, e) == a[1] * Pow2(e - a[2])
DAdd(a, b) == Norm(Num(a, MaxE(a, b)) + Num(b, MaxE(a, b)), MaxE(a, b))
DSub(a, b) == Norm(Num(a, MaxE(a, b)) - Num(b, MaxE(a, b)), MaxE(a, b))
DMul(a, b) == Norm(a[1] * b[1], a[2] + b[2])
DLess(a, b) == Num(a, MaxE(a, b)) < Num(b, MaxE(a, b))

RECURSIVE pow(_, _)
pow(b, x) == IF x = 0 THEN D(1) ELSE DMul(b, pow(b, x - 1))

(***************************************************************************)
(* color.h                                                                 *)
(***************************************************************************)
Prime == 2^15 - 19
InvTwo == (Prime + 1) \div 2

RECURSIVE HalfPow(_)
HalfPow(e) == IF e = 0 THEN 1 ELSE (InvTwo * HalfPow(e - 1)) % Prime

\* the residue of a dyadic rational
Residue(d) == ((d[1] % Prime) * HalfPow(d[2])) % Prime

Runs == {"A", "B"}
Grey(d) == [k \in Runs |-> Residue(d)]
colorAddition(a, b) == [k \in Runs |-> (a[k] + b[k]) % Prime]
colorMultiplication(a, b) == [k \in Runs |-> (a[k] * b[k]) % Prime]
colorScale(s, c) == [k \in Runs |-> (Residue(s) * c[k]) % Prime]

(***************************************************************************)
(* getNearestObject: ds[i] is objIntercept of object i along the ray.      *)
(***************************************************************************)
AcceptsLastTie(distance, closest) == distance > SelfEpsilon /\ distance <= closest

AcceptsOnSurface(distance, closest) == distance >= 0 /\ distance < closest

Accepts(distance, closest) == distance > SelfEpsilon /\ distance < closest

\* lines 237-244: one iteration of the loop
NearestStep(ds, i, acc) ==
    IF Accepts(ds[i], acc.closest) THEN [closest |-> ds[i], object |-> i] ELSE acc

\* closest and *object after the first i iterations
RECURSIVE NearestLoop(_, _, _)
NearestLoop(ds, object, i) ==
    IF i = 0 THEN [closest |-> DBL_MAX, object |-> object]
    ELSE CHOOSE r \in {NearestStep(ds, i, acc) : acc \in {NearestLoop(ds, object, i - 1)}} : TRUE

getNearestObject(ds, object) == NearestLoop(ds, object, Len(ds))

(***************************************************************************)
(* isInShadow: ds[i] is objIntercept of object i from the point towards    *)
(* the light, ops[i] the opacity of its material.                          *)
(***************************************************************************)
BlocksBehindLight(distance, maxDistance) == distance > ShadowEpsilon

Blocks(distance, maxDistance) == distance > ShadowEpsilon /\ distance < maxDistance

\* lines 262-269: one iteration of the loop
ShadowStep(ds, ops, maxDistance, i, acc) ==
    [opacity  |-> IF Blocks(ds[i], maxDistance) THEN DAdd(acc.opacity, ops[i]) ELSE acc.opacity,
     examined |-> acc.examined + 1]

\* opacity after the first i iterations, and the objects examined
RECURSIVE ShadowLoop(_, _, _, _)
ShadowLoop(ds, ops, maxDistance, i) ==
    IF i = 0 THEN [opacity |-> D(0), examined |-> 0]
    ELSE CHOOSE r \in {ShadowStep(ds, ops, maxDistance, i, acc) :
                          acc \in {ShadowLoop(ds, ops, maxDistance, i - 1)}} : TRUE

isInShadow(ds, ops, maxDistance) == ShadowLoop(ds, ops, maxDistance, Len(ds))

(***************************************************************************)
(* algebra.h on a line: a point is an integer (distance units), a          *)
(* direction is +1 or -1.                                                  *)
(***************************************************************************)
algAdd(a, b) == a + b
algSub(a, b) == a - b
algScale(s, v) == s * v
algNorm(v) == IF v < 0 THEN 0 - v ELSE v
algUnit(v) == IF v < 0 THEN 0 - 1 ELSE 1
algDot(a, b) == a * b
algReflect(v, n) == 2 * algDot(n, v) * n - v
\* normal incidence: the direction is not bent, whatever the indices
algSnell(ray, normal, n1, n2) == ray

(***************************************************************************)
(* The scene: spheres of radius 1.0 centred at 4.0, 8.0, 12.0, ... on the  *)
(* line, lights 0, 1, 2, ... at 2.0, 6.0, 10.0, ..., the camera at 6.0 (between the     *)
(* first and the second sphere).  Odd spheres have material m1, even       *)
(* spheres material m2.                                                    *)
(***************************************************************************)
MaterialIds == {"matte", "mirror", "glass", "tinted"}

Materials ==
    [matte  |-> [diffuse |-> Grey(D(2)), specular |-> Grey(D(1)), specularExponent |-> 2,
                 reflectionFactor |-> D(0), refractionIndex |-> D(1), opacity |-> D(1)],
     mirror |-> [diffuse |-> Grey(D(1)), specular |-> Grey(D(1)), specularExponent |-> 1,
                 reflectionFactor |-> D(1), refractionIndex |-> D(1), opacity |-> D(1)],
     glass  |-> [diffuse |-> Grey(D(3)), specular |-> Grey(Half), specularExponent |-> 2,
                 reflectionFactor |-> D(0), refractionIndex |-> D(2), opacity |-> D(0)],
     tinted |-> [diffuse |-> Grey(D(4)), specular |-> Grey(D(1)), specularExponent |-> 3,
                 reflectionFactor |-> Half, refractionIndex |-> D(2), opacity |-> Half]]

Scenes ==
    { sc \in [nObjects : 0..MaxObjects, nLights : 0..MaxLights,
              m1 : MaterialIds, m2 : MaterialIds] :
        /\ sc.nObjects < 1 => sc.m1 = "matte"
        /\ sc.nObjects < 2 => sc.m2 = "matte" }

CameraPos == 6 * Unit
Center(o) == 4 * o * Unit
Radius == Unit
LightPos(w) == (4 * w + 2) * Unit

sceneGetObjectCount(sc) == sc.nObjects
sceneGetLightCount(sc) == sc.nLights
sceneGetAmbientLight(sc) == Grey(Half)
sceneGetBackgroundColor(sc, eye, ray) == Grey(D(eye \div Unit + 2 * ray + 3))
objGetMaterial(sc, o) == IF o % 2 = 1 THEN sc.m1 ELSE sc.m2
sceneGetMaterial(sc, id) == Materials[id]
lightGetPosition(w) == LightPos(w)
lightGetColor(w) == [k \in Runs |-> IF k = "A" THEN 1 ELSE w + 2]

\* smallest non-negative root of the ray/sphere equation, -1 when there is none
objIntercept(o, eye, ray) ==
    LET along == (Center(o) - eye) * ray
    IN  IF along - Radius >= 0 THEN along - Radius
        ELSE IF along + Radius >= 0 THEN along + Radius
        ELSE 0 - 1
objNormalAt(o, point) == point - Center(o)
objInterceptExit(o, point, innerRay) == Center(o) + Radius * innerRay

Intercepts(sc, eye, ray) == [i \in 1..sceneGetObjectCount(sc) |-> objIntercept(i, eye, ray)]
Opacities(sc) ==
    [i \in 1..sceneGetObjectCount(sc) |-> sceneGetMaterial(sc, objGetMaterial(sc, i)).opacity]

(***************************************************************************)
(* State                                                                   *)
(***************************************************************************)
VARIABLES
    scene,      \* the scene every call is given
    stack,      \* call stack of rayTrace and shade frames, innermost last
    lastColor,  \* the global fallback colour
    ret,        \* value returned by the call that completed last
    nTop,       \* top-level calls made by the client
    calls,      \* nested rayTrace calls issued since the top-level call began
    queries,    \* objIntercept queries made since the top-level call began
    shades,     \* shade invocations since the top-level call began
    last,       \* the rayTrace call that completed last
    hitRet,     \* colour returned by the last completed rayTrace that hit an object
    shaded,     \* the shade invocation that completed last
    job,        \* a direct call of getNearestObject or isInShadow
    out         \* its result

vars == <<scene, stack, lastColor, ret, nTop, calls, queries, shades,
          last, hitRet, shaded, job, out>>

Black == Grey(D(0))

Frame(fn, via, eye, ray, depth) ==
    [fn |-> fn, pc |-> "start", via |-> via, eye |-> eye, ray |-> ray, depth |-> depth,
     object |-> 0, point |-> 0, normal |-> 0, w |-> 0,
     color |-> Black, intensitycolor |-> Black, nRefr |-> 0, nRefl |-> 0]

Top == stack[Len(stack)]
Pop == SubSeq(stack, 1, Len(stack) - 1)
Replace(f) == [stack EXCEPT ![Len(stack)] = f]
Running(fn, pc) == stack # <<>> /\ Top.fn = fn /\ Top.pc = pc

NoJob == [op |-> "none", ds |-> <<>>, ops |-> <<>>, maxDistance |-> 0, object |-> 0]
NoOut == [of |-> "none", closest |-> 0, object |-> 0, opacity |-> D(0), examined |-> 0]
NoLast == [kind |-> "none", via |-> "none", eye |-> 0, ray |-> 0, depth |-> 0]
NoShaded == [object |-> 0, lights |-> 0, nRefr |-> 0, nRefl |-> 0, color |-> Black]

Init ==
    /\ scene \in Scenes
    /\ stack = <<>>
    /\ lastColor = Black
    /\ ret = Black
    /\ nTop = 0
    /\ calls = 0
    /\ queries = 0
    /\ shades = 0
    /\ last = NoLast
    /\ hitRet = Black
    /\ shaded = NoShaded
    /\ job = NoJob
    /\ out = NoOut

(***************************************************************************)
(* rayTrace                                                                *)
(***************************************************************************)
TopDepths == {0, MAX_DEPTH}

\* a client traces a ray from the camera; the counters and the records of the
\* previous call start afresh, lastColor and the last returned colour stay
TopCall ==
    /\ stack = <<>>
    /\ nTop < MaxTopCalls
    /\ \E ray \in {0 - 1, 1}, depth \in TopDepths :
          stack' = <<Frame("rayTrace", "client", CameraPos, ray, depth)>>
    /\ nTop' = nTop + 1
    /\ calls' = 0
    /\ queries' = 0
    /\ shades' = 0
    /\ last' = NoLast
    /\ shaded' = NoShaded
    /\ UNCHANGED <<scene, lastColor, ret, hitRet, job, out>>

DepthOkInclusive(depth) == depth <= MAX_DEPTH

DepthOk(depth) == depth < MAX_DEPTH

ShadeDepth(depth) == depth + 1

Completed(f, kind) ==
    [kind |-> kind, via |-> f.via, eye |-> f.eye, ray |-> f.ray, depth |-> f.depth]

\* depth at the limit: the fallback colour is returned at once
RayTraceLimit ==
    /\ Running("rayTrace", "start")
    /\ ~DepthOk(Top.depth)
    /\ ret' = lastColor
    /\ stack' = Pop
    /\ last' = Completed(Top, "limit")
    /\ UNCHANGED <<scene, lastColor, nTop, calls, queries, shades, hitRet, shaded, job, out>>

Nearest(f) ==
    CHOOSE r \in {getNearestObject(ds, 0) : ds \in {Intercepts(scene, f.eye, f.ray)}} : TRUE

MissFallbackCached(fallback, background) == background

MissFallback(fallback, background) == fallback

\* no object is hit: the background colour is returned
RayTraceMiss ==
    /\ Running("rayTrace", "start")
    /\ DepthOk(Top.depth)
    /\ \E near \in {Nearest(Top)} :
          /\ near.closest = DBL_MAX
          /\ \E background \in {sceneGetBackgroundColor(scene, Top.eye, Top.ray)} :
                /\ ret' = background
                /\ lastColor' = MissFallback(lastColor, background)
    /\ stack' = Pop
    /\ queries' = queries + sceneGetObjectCount(scene)
    /\ last' = Completed(Top, "miss")
    /\ UNCHANGED <<scene, nTop, calls, shades, hitRet, shaded, job, out>>

MaterialOf(o) == sceneGetMaterial(scene, objGetMaterial(scene, o))

\* an object is hit: shade is called with the incremented depth
RayTraceHit ==
    /\ Running("rayTrace", "start")
    /\ DepthOk(Top.depth)
    /\ \E f \in {Top}, near \in {Nearest(Top)} :
          /\ near.closest # DBL_MAX
          /\ LET object   == near.object
                 distance == near.closest
                 point    == algAdd(f.eye, algScale(distance, f.ray))
                 normal   == algUnit(objNormalAt(object, point))
             IN  stack' = Append(Replace([f EXCEPT !.pc = "shading"]),
                           [Frame("shade", "rayTrace", f.eye, f.ray, ShadeDepth(f.depth))
                               EXCEPT !.pc = "light", !.object = object, !.point = point,
                                      !.normal = normal,
                                      !.color = colorMultiplication(
                                                    MaterialOf(object).diffuse,
                                                    sceneGetAmbientLight(scene))])
    /\ queries' = queries + sceneGetObjectCount(scene)
    /\ shades' = shades + 1
    /\ UNCHANGED <<scene, lastColor, ret, nTop, calls, last, hitRet, shaded, job, out>>

\* shade has returned: its colour becomes the fallback and is returned
RayTraceShaded ==
    /\ Running("rayTrace", "shading")
    /\ lastColor' = ret
    /\ ret' = lastColor'
    /\ hitRet' = ret'
    /\ stack' = Pop
    /\ last' = Completed(Top, "hit")
    /\ UNCHANGED <<scene, nTop, calls, queries, shades, shaded, job, out>>

(***************************************************************************)
(* shade: one frame per invocation; w is the light being handled.  The     *)
(* body of the loop is cut where it calls rayTrace.                        *)
(***************************************************************************)
Air == D(1)

RefractsOncePerCall(opacity, w) == DLess(opacity, D(1)) /\ w = 0

Refracts(opacity, w) == DLess(opacity, D(1))

Reflects(reflectionFactor) == DLess(D(0), reflectionFactor)

RefractDepthDeeper(depth) == depth + 1

RefractDepth(depth) == depth

ReflectDepth(depth) == depth + 1

InLoop(f) == f.w < sceneGetLightCount(scene)

\* opacity < 1: the refracted ray is traced from the exit point
ShadeRefract ==
    /\ Running("shade", "light")
    /\ InLoop(Top)
    /\ Refracts(MaterialOf(Top.object).opacity, Top.w)
    /\ LET f              == Top
           refractedIndex == MaterialOf(f.object).refractionIndex
           innerRay       == algSnell(f.ray, objNormalAt(f.object, f.point), Air, refractedIndex)
           exitPoint      == objInterceptExit(f.object, f.point, innerRay)
           normal         == algUnit(objNormalAt(f.object, exitPoint))
           ray            == algSnell(innerRay, algScale(0 - 1, normal), refractedIndex, Air)
       IN  stack' = Append(Replace([f EXCEPT !.pc = "refracting", !.ray = ray,
                                             !.intensitycolor = lightGetColor(f.w),
                                             !.nRefr = f.nRefr + 1]),
                           Frame("rayTrace", "refraction", exitPoint, ray, RefractDepth(f.depth)))
    /\ calls' = calls + 1
    /\ UNCHANGED <<scene, lastColor, ret, nTop, queries, shades, last, hitRet, shaded, job, out>>

\* lines 174-177: blend the colour seen through the object
Transmit(color, colorOpacity, opacity) ==
    colorAddition(colorScale(DSub(D(1), opacity), colorOpacity), colorScale(opacity, color))

DiffuseIntensityLit(intensitycolor, produto, diffuse, opacity) ==
    colorMultiplication(intensitycolor, colorScale(opacity, colorScale(D(produto), diffuse)))

\* lines 189-190: the light's colour held by intensitycolor is overwritten
DiffuseIntensity(intensitycolor, produto, diffuse, opacity) ==
    colorScale(opacity, colorScale(D(produto), diffuse))

\* lines 191-194 and 207-210
Attenuate(InterceptionOpacity, intensitycolor) ==
    IF InterceptionOpacity # D(0)
    THEN colorScale(DSub(D(1), InterceptionOpacity), intensitycolor)
    ELSE intensitycolor

\* line 181
InterceptionOpacityOf(f) ==
    CHOOSE r \in
        {isInShadow(ds, ops, algNorm(algSub(lightGetPosition(f.w), f.point))).opacity :
            ds \in {Intercepts(scene, f.point,
                               algUnit(algSub(lightGetPosition(f.w), f.point)))},
            ops \in {Opacities(scene)}} : TRUE

\* lines 183-212: diffuse and specular terms of light f.w
Direct(f, m, color, intensitycolor, InterceptionOpacity) ==
    LET pointToEyeRay   == algUnit(algSub(f.eye, f.point))
        pointToLightRay == algUnit(algSub(lightGetPosition(f.w), f.point))
        nDotL           == algDot(f.normal, pointToLightRay)
        withDiffuse     ==
            IF DLess(D(0), m.opacity) /\ nDotL > 0
            THEN colorAddition(color,
                     Attenuate(InterceptionOpacity,
                         DiffuseIntensity(intensitycolor, nDotL, m.diffuse, m.opacity)))
            ELSE color
        rDotE           == algDot(algReflect(pointToLightRay, f.normal), pointToEyeRay)
    IN  IF rDotE > 0
        THEN colorAddition(withDiffuse,
                 Attenuate(InterceptionOpacity,
                     colorScale(pow(D(rDotE), m.specularExponent), m.specular)))
        ELSE withDiffuse

\* the loop body from the return of the refracted trace (or from its top, for an
\* opaque material) to the mirror trace or the end of the iteration
ShadeLight ==
    /\ \/ Running("shade", "light") /\ InLoop(Top)
            /\ ~Refracts(MaterialOf(Top.object).opacity, Top.w)
       \/ Running("shade", "refracting")
    /\ \E f \in {Top}, m \in {MaterialOf(Top.object)} :
       \E color \in {IF f.pc = "refracting" THEN Transmit(f.color, ret, m.opacity)
                     ELSE f.color},
          intensitycolor \in {IF f.pc = "refracting"
                              THEN colorScale(DSub(D(1), m.opacity), ret)
                              ELSE lightGetColor(f.w)},
          InterceptionOpacity \in {InterceptionOpacityOf(f)} :
       \E lit \in {Direct(f, m, color, intensitycolor, InterceptionOpacity)} :
          IF Reflects(m.reflectionFactor)
          THEN /\ stack' = Append(Replace([f EXCEPT !.pc = "reflecting", !.color = lit,
                                                    !.intensitycolor = Black,
                                                    !.nRefl = f.nRefl + 1]),
                                  Frame("rayTrace", "reflection", f.point,
                                        algReflect(algUnit(algSub(f.eye, f.point)), f.normal),
                                        ReflectDepth(f.depth)))
               /\ calls' = calls + 1
          ELSE /\ stack' = Replace([f EXCEPT !.pc = "light", !.color = lit,
                                             !.intensitycolor = Black, !.w = f.w + 1])
               /\ calls' = calls
    /\ queries' = queries + sceneGetObjectCount(scene)
    /\ UNCHANGED <<scene, lastColor, ret, nTop, shades, last, hitRet, shaded, job, out>>

\* lines 220-221: add the mirrored colour, next light
ShadeReflected ==
    /\ Running("shade", "reflecting")
    /\ LET f == Top
       IN  stack' = Replace([f EXCEPT !.pc = "light", !.w = f.w + 1,
                       !.color = colorAddition(f.color,
                                     colorScale(MaterialOf(f.object).reflectionFactor, ret))])
    /\ UNCHANGED <<scene, lastColor, ret, nTop, calls, queries, shades, last, hitRet,
                   shaded, job, out>>

\* line 225
ShadeReturn ==
    /\ Running("shade", "light")
    /\ ~InLoop(Top)
    /\ ret' = Top.color
    /\ stack' = Pop
    /\ shaded' = [object |-> Top.object, lights |-> sceneGetLightCount(scene),
                  nRefr |-> Top.nRefr, nRefl |-> Top.nRefl, color |-> Top.color]
    /\ UNCHANGED <<scene, lastColor, nTop, calls, queries, shades, last, hitRet, job, out>>

Step ==
    \/ RayTraceLimit
    \/ RayTraceMiss
    \/ RayTraceHit
    \/ RayTraceShaded
    \/ ShadeRefract
    \/ ShadeLight
    \/ ShadeReflected
    \/ ShadeReturn

Next == TopCall \/ Step

Spec == Init /\ [][Next]_vars

\* a call, once made, runs to completion
FairSpec == Spec /\ WF_vars(Step)

(***************************************************************************)
(* getNearestObject and isInShadow called directly on the distances the    *)
(* objects report.                                                         *)
(***************************************************************************)
SeqsUpTo(S, n) == UNION { [1..k -> S] : k \in 0..n }

NearDists == {0 - 1, 0, SelfEpsilon, SelfEpsilon + 1, SelfEpsilon + 2, Unit}
ShadowDists == {0 - 1, ShadowEpsilon, ShadowEpsilon + 1, 2 * ShadowEpsilon, 3 * ShadowEpsilon}
FnOpacities == {D(0), Half, D(1)}

NearestJobs ==
    { [op |-> "nearest", ds |-> ds, ops |-> <<>>, maxDistance |-> 0, object |-> object] :
        ds \in SeqsUpTo(NearDists, MaxFnLen), object \in {0, MaxFnLen + 1} }

ShadowJobs ==
    { [op |-> "shadow", ds |-> [i \in DOMAIN q |-> q[i][1]], ops |-> [i \in DOMAIN q |-> q[i][2]],
       maxDistance |-> maxDistance, object |-> 0] :
        q \in SeqsUpTo(ShadowDists \X FnOpacities, MaxFnLen),
        maxDistance \in {2 * ShadowEpsilon, 3 * ShadowEpsilon} }

FnInit ==
    /\ job \in NearestJobs \cup ShadowJobs
    /\ out = NoOut
    /\ scene = [nObjects |-> 0, nLights |-> 0, m1 |-> "matte", m2 |-> "matte"]
    /\ stack = <<>>
    /\ lastColor = Black
    /\ ret = Black
    /\ nTop = 0
    /\ calls = 0
    /\ queries = 0
    /\ shades = 0
    /\ last = NoLast
    /\ hitRet = Black
    /\ shaded = NoShaded

CallNearest ==
    /\ job.op = "nearest"
    /\ out.of = "none"
    /\ out' = [of |-> "nearest",
               closest |-> getNearestObject(job.ds, job.object).closest,
               object |-> getNearestObject(job.ds, job.object).object,
               opacity |-> D(0), examined |-> 0]
    /\ UNCHANGED <<scene, stack, lastColor, ret, nTop, calls, queries, shades,
                   last, hitRet, shaded, job>>

CallShadow ==
    /\ job.op = "shadow"
    /\ out.of = "none"
    /\ out' = [of |-> "shadow", closest |-> 0, object |-> 0,
               opacity |-> isInShadow(job.ds, job.ops, job.maxDistance).opacity,
               examined |-> isInShadow(job.ds, job.ops, job.maxDistance).examined]
    /\ UNCHANGED <<scene, stack, lastColor, ret, nTop, calls, queries, shades,
                   last, hitRet, shaded, job>>

FnNext == CallNearest \/ CallShadow

FnSpec == FnInit /\ [][FnNext]_vars

(***************************************************************************)
(* Properties                                                              *)
(***************************************************************************)

\* C1: a rayTrace call whose depth equals MAX_DEPTH returns the fallback colour in
\* its first step: no objIntercept query, no shade invocation, no nested rayTrace
\* call, and the fallback colour itself is left as it was.
LimitReturnsFallback ==
    [][(Running("rayTrace", "start") /\ Top.depth = MAX_DEPTH)
         => /\ ret' = lastColor
            /\ lastColor' = lastColor
            /\ stack' = Pop
            /\ queries' = queries
            /\ shades' = shades
            /\ calls' = calls]_vars

\* a client's call at the maximum depth has returned a fallback colour that an
\* earlier call had left
LimitWitness ==
    /\ stack = <<>>
    /\ last.kind = "limit" /\ last.via = "client" /\ last.depth = MAX_DEPTH
    /\ lastColor # Black
    /\ ret = lastColor
    /\ calls = 0 /\ queries = 0 /\ shades = 0

PastCheck(i) == stack[i].fn = "rayTrace" /\ stack[i].pc = "shading"

ChainOk ==
    /\ Cardinality({i \in DOMAIN stack : PastCheck(i)}) <= MAX_DEPTH
    /\ \A i \in DOMAIN stack :
          (stack[i].fn = "rayTrace" /\ stack[i].depth >= MAX_DEPTH)
             => (stack[i].pc = "start" /\ i = Len(stack))

\* C2: every rayTrace call terminates (the stack empties again), at most MAX_DEPTH
\* nested rayTrace calls are past the depth check at any time, and a call at or
\* beyond MAX_DEPTH never gets past it: it has no callee.
BoundedRecursion ==
    /\ []ChainOk
    /\ (stack # <<>>) ~> (stack = <<>>)

\* MAX_DEPTH nested calls are past the depth check, the innermost has issued a
\* call at the limit
ChainWitness ==
    /\ Cardinality({i \in DOMAIN stack : PastCheck(i)}) = MAX_DEPTH
    /\ Running("rayTrace", "start")
    /\ Top.depth = MAX_DEPTH
    /\ stack[1].depth = 0

NoneAccepted(f) ==
    \A i \in 1..sceneGetObjectCount(scene) : objIntercept(i, f.eye, f.ray) <= SelfEpsilon

\* C3: a rayTrace call below the maximum depth whose ray no object intercepts at an
\* accepted distance returns the background colour of (eye, ray) in its first step,
\* without a shade invocation.
MissReturnsBackground ==
    [][(Running("rayTrace", "start") /\ Top.depth < MAX_DEPTH /\ NoneAccepted(Top))
         => /\ ret' = sceneGetBackgroundColor(scene, Top.eye, Top.ray)
            /\ stack' = Pop
            /\ shades' = shades
            /\ calls' = calls]_vars

\* a nested ray left a scene of several objects and got the background colour,
\* which differs from the fallback colour
MissWitness ==
    /\ last.kind = "miss" /\ last.via # "client"
    /\ sceneGetObjectCount(scene) >= 2
    /\ ret = sceneGetBackgroundColor(scene, last.eye, last.ray)
    /\ ret # lastColor

TwoFacingMirrors ==
    /\ sceneGetObjectCount(scene) = 2
    /\ sceneGetLightCount(scene) = 1
    /\ scene.m1 = "mirror" /\ scene.m2 = "mirror"

\* C4: between two facing mirrors with one light, a call made at depth 0 has issued
\* MAX_DEPTH nested rayTrace calls when it returns.
MirrorCallsEqualMaxDepth ==
    (TwoFacingMirrors /\ stack = <<>> /\ last.via = "client" /\ last.depth = 0)
        => calls = MAX_DEPTH

Qualifying(ds) == {i \in DOMAIN ds : ds[i] > SelfEpsilon}

\* C5: getNearestObject returns the least distance above the epsilon and the first
\* object that reports it; with no such object it returns DBL_MAX and the object
\* it was given.
NearestIsFirstMinimum ==
    out.of = "nearest" =>
        LET Q == Qualifying(job.ds)
        IN  IF Q = {}
            THEN out.closest = DBL_MAX /\ out.object = job.object
            ELSE /\ out.object \in Q
                 /\ out.closest = job.ds[out.object]
                 /\ \A i \in Q : out.closest <= job.ds[i]
                 /\ \A i \in Q : job.ds[i] = out.closest => out.object <= i

\* three objects: the first at the epsilon, the other two tied above it
NearestWitness ==
    /\ out.of = "nearest"
    /\ Len(job.ds) = 3
    /\ job.ds[1] = SelfEpsilon
    /\ job.ds[2] = job.ds[3]
    /\ out.object = 2
    /\ out.closest = SelfEpsilon + 1

RECURSIVE OpacitySum(_, _)
OpacitySum(S, ops) ==
    IF S = {} THEN D(0)
    ELSE LET i == CHOOSE j \in S : TRUE IN DAdd(ops[i], OpacitySum(S \ {i}, ops))

\* C6: isInShadow returns the sum of the opacities of the objects whose distance is
\* strictly between the shadow epsilon and the distance to the light, unclamped, and
\* it examines every object.
ShadowIsOpacitySum ==
    out.of = "shadow" =>
        /\ out.opacity =
              OpacitySum({i \in DOMAIN job.ds :
                             job.ds[i] > ShadowEpsilon /\ job.ds[i] < job.maxDistance},
                         job.ops)
        /\ out.examined = Len(job.ds)

\* two opaque blockers and a third object at the light's distance: the sum is 2
ShadowWitness ==
    /\ out.of = "shadow"
    /\ Len(job.ds) = 3
    /\ job.ds[3] = job.maxDistance /\ job.ops[3] = D(1)
    /\ out.opacity = D(2)

\* C7: the fallback colour is the colour returned by the last completed rayTrace
\* call that hit an object (its initial value before any): a call that returns the
\* background or the fallback leaves it unchanged.
FallbackIsLastHit == lastColor = hitRet

\* after a call that hit an object, a call returned the background colour
FallbackWitness ==
    /\ last.kind = "miss"
    /\ hitRet # Black
    /\ ret # lastColor
    /\ lastColor = hitRet

TraceFrames(via) == {i \in DOMAIN stack : stack[i].fn = "rayTrace" /\ stack[i].via = via}

\* C8 as stated: the refracted ray is traced at the depth of the rayTrace call being
\* shaded, the mirrored ray one level deeper.
RefractionAtCallerDepth ==
    /\ \A i \in TraceFrames("refraction") : stack[i].depth = stack[i - 2].depth
    /\ \A i \in TraceFrames("reflection") : stack[i].depth = stack[i - 2].depth + 1

\* C8 amended: the refracted ray is traced at the depth shade was given, which is
\* one more than the depth of the rayTrace call being shaded; the mirrored ray is
\* traced one level deeper than that, two more than the rayTrace call being shaded.
RefractionAtShadeDepth ==
    /\ \A i \in TraceFrames("refraction") :
          /\ stack[i].depth = stack[i - 1].depth
          /\ stack[i].depth = stack[i - 2].depth + 1
    /\ \A i \in TraceFrames("reflection") :
          /\ stack[i].depth = stack[i - 1].depth + 1
          /\ stack[i].depth = stack[i - 2].depth + 2

\* a refracted trace is running inside a mirrored trace
DepthWitness ==
    \E i \in TraceFrames("reflection") : \E j \in TraceFrames("refraction") : i < j

\* C9: a completed shade invocation has issued one mirrored trace per light if the
\* reflection factor is positive and none otherwise, one refracted trace per light
\* if the opacity is below 1 and none otherwise; with no light it returns
\* diffuse * ambient.
OncePerLight ==
    shaded.object # 0 =>
        LET m == MaterialOf(shaded.object)
        IN  /\ shaded.lights = sceneGetLightCount(scene)
            /\ shaded.nRefl = IF DLess(D(0), m.reflectionFactor) THEN shaded.lights ELSE 0
            /\ shaded.nRefr = IF DLess(m.opacity, D(1)) THEN shaded.lights ELSE 0
            /\ shaded.lights = 0 =>
                  shaded.color = colorMultiplication(m.diffuse, sceneGetAmbientLight(scene))

\* a shade invocation with two lights has issued two traces of each kind
PerLightWitness ==
    /\ shaded.object # 0
    /\ shaded.lights = 2
    /\ shaded.nRefl = 2
    /\ shaded.nRefr = 2

\* C10: in two scenes that differ only in the colours of the lights, every call
\* returns the same colour and leaves the same fallback colour.
LightColourIndependent ==
    /\ ret["A"] = ret["B"]
    /\ lastColor["A"] = lastColor["B"]

\* a lit surface was shaded: the colour returned is more than diffuse * ambient
LitWitness ==
    /\ last.kind = "hit"
    /\ shaded.object # 0
    /\ shaded.lights >= 1
    /\ \E w \in 0..(shaded.lights - 1) : lightGetColor(w)["A"] # lightGetColor(w)["B"]
    /\ ret # colorMultiplication(MaterialOf(shaded.object).diffuse, sceneGetAmbientLight(scene))
    /\ ret["A"] = ret["B"]

====
